---- MODULE Spec2Model ----
(***************************************************************************)
(* Model of pychef.aws: EcsDeployService (aws/ecs/classes.py) driving the  *)
(* ECS control plane, and SecretManagerService                             *)
(* (aws/secrets_manager/classes.py) driving the secret store.              *)
(*                                                                         *)
(* One step of the model is one call on the boto3 client together with the *)
(* code that follows it up to the next call.  The outcome of a call is the *)
(* collaborator's choice: it returns a response with status 200, returns a *)
(* response with another status, or raises.                                *)
(***************************************************************************)
EXTENDS Integers, Sequences, FiniteSets, TLC

\* ------------------------------------------------------------------ bounds
MaxServices == 2
MaxRuns == 2
MaxSecrets == 3

\* ------------------------------------------------------------- value sets
TdObjs == {"t1", "t2"}                 \* EcsTaskDefinitionConfig objects
None == "None"
Families == {"fa", "fb"}
ServiceNames == {"s1", "s2"}
CollabErrors == {"ClientError"}        \* what the boto3 client may raise

NoArn == [family |-> "", rev |-> 0]
NoError == [type |-> "", msg |-> ""]
NoPayload ==
    [family |-> "", volumes |-> << >>, image |-> << >>, command |-> << >>,
     environment |-> << >>, mountPoints |-> << >>, streamPrefix |-> ""]
NoSvcArgs == [cluster |-> "", service |-> "", taskDefinition |-> NoArn]
NoRunArgs == [cluster |-> "", taskDefinition |-> NoArn, count |-> 0]

\* The commands argument of create_runtask: None (the default) or a list.
NoCommands == [isList |-> FALSE, items |-> << >>]
CommandArgs == {NoCommands} \cup
               {[isList |-> TRUE, items |-> c] : c \in {<< >>, <<"migrate">>}}

VARIABLES
    tdFamily,     \* EcsTaskDefinitionConfig.family, per object
    tdCommands,   \* EcsTaskDefinitionConfig.commands, per object
    tdVolumes,    \* EcsTaskDefinitionConfig.volumes of each object: [path, volume] in dict order
    tdEnvironments, \* EcsTaskDefinitionConfig.environments of each object
    tdStreamArg,  \* the awslog_stream argument each object was constructed with
    tdAwslogStream, \* EcsTaskDefinitionConfig.awslog_stream of each object
    clusterName,  \* EcsClusterConfig.name
    services,     \* EcsClusterConfig.services: sequence of [name, td]
    runtask,      \* EcsClusterConfig.runtask: an object or None
    repo, tag,    \* EcsDeployService.repo / .tag
    cpRev,        \* control plane: latest revision of each family, 0 = unknown
    cpSvcTd,      \* control plane: task definition each service points at
    cpTasks,      \* control plane: the run requests it accepted
    op,           \* the method being executed: "none", "deploy", "runtask"
    pc,           \* the next client call: "idle", "describe", "register", "update", "run"
    idx,          \* create_deployment's position in cluster.services (0 in create_runtask)
    tdDict,       \* task_definition_dict, the local of update_task_definition
    arn,          \* task_definition_arn, the local of create_deployment / create_runtask
    given,        \* the commands argument of the last create_runtask
    log,          \* the client calls issued by the running (or last) invocation
    outcome,      \* of the last finished invocation: "none", "returned", "raised"
    raised,       \* the error it raised
    runs,         \* invocations started so far
    rendered,     \* the last direct call of generate_args and its result
    \* SecretManagerService and the secret store behind its client
    store,        \* the secret store: name -> value
    prefix,       \* SecretManagerService.prefix
    served,       \* the store's cursor: the names it has served to this listing
    sPc,          \* "idle", or "paging" between two requests of fetch_secrets
    sResult,      \* result, the local of fetch_secrets
    sToken,       \* args["NextToken"], 0 while the key is absent
    sLog,         \* the requests of the running (or last) fetch_secrets
    sOutcome,     \* of the last finished call: "none", "returned", "raised"
    sReturned,    \* what it returned
    sRaised,      \* the error it raised
    sOp,          \* the method of the last call: "none", "fetch_secrets", "fetch_secret"
    sKey,         \* the key argument of the last fetch_secret
    sGets,        \* the get_secret_value calls of the last fetch_secret
    sValue        \* what fetch_secret returned, "" when it did not return

tdRender == <<tdVolumes, tdEnvironments, tdStreamArg, tdAwslogStream>>
config == <<tdFamily, tdCommands, tdRender, clusterName, services, runtask, repo, tag>>
plane == <<cpRev, cpSvcTd, cpTasks>>
locals == <<op, pc, idx, tdDict, arn, given, log, outcome, raised, runs>>

ecs == <<config, plane, locals, rendered>>
single == <<sKey, sGets, sValue>>
secrets == <<store, prefix, served, sPc, sResult, sToken, sLog, sOutcome,
             sReturned, sRaised, sOp, single>>

vars == <<ecs, secrets>>

\* ------------------------------------------------------------- rendering

\* Mutant: an empty awslog_stream stays empty.
PostInit_Keep(family, awslog_stream) == awslog_stream

\* Line 46-48, __post_init__: awslog_stream falls back to family.
PostInit(family, awslog_stream) ==
    IF awslog_stream = "" THEN family ELSE awslog_stream

\* Line 63-72: the two entries generate_args appends.
DynamicEnvironments(r, t) ==
    <<[name |-> "IMAGE_REPOSITORY", value |-> r],
      [name |-> "IMAGE_TAG", value |-> t]>>

\* Line 63: environments = self.environments + [...], a new list.
Environments(o, r, t) == tdEnvironments[o] \o DynamicEnvironments(r, t)

\* Mutant: the two entries are appended to the stored list itself
\* (self.environments += [...]).
EnvironmentsAfter_InPlace(o, r, t) == tdEnvironments[o] \o DynamicEnvironments(r, t)

\* Line 63: the + builds a new list, self.environments is left as it was.
EnvironmentsAfter(o, r, t) == tdEnvironments[o]

\* Mutant: the mount point names the path as its source volume.
MountPoint_ByPath(path, volume) ==
    [containerPath |-> path, sourceVolume |-> path]

\* Line 93-96: one mount point of a path and the volume stored under it.
MountPoint(path, volume) ==
    [containerPath |-> path, sourceVolume |-> volume.name]

\* Line 75: [volume for volume in self.volumes.values()]
Volumes(o) == [i \in 1..Len(tdVolumes[o]) |-> tdVolumes[o][i].volume]

\* Line 92-98: [... for path, volume in self.volumes.items()]
MountPoints(o) ==
    [i \in 1..Len(tdVolumes[o]) |->
        MountPoint(tdVolumes[o][i].path, tdVolumes[o][i].volume)]

\* Line 95: volume["name"] raises KeyError for a volume definition that has
\* no name key.
RenderRaises(o) ==
    \E i \in 1..Len(tdVolumes[o]) : ~tdVolumes[o][i].volume.hasName

KeyError == [type |-> "KeyError", msg |-> "name"]

\* EcsTaskDefinitionConfig.generate_args(repo, tag), for a spec whose volume
\* definitions all have a name.
TdGenerateArgs(o, r, t) ==
    [family       |-> tdFamily[o],
     volumes      |-> Volumes(o),
     image        |-> <<r, t>>,
     command      |-> tdCommands[o],
     environment  |-> Environments(o, r, t),
     mountPoints  |-> MountPoints(o),
     streamPrefix |-> tdAwslogStream[o]]

\* What a call of generate_args on o leaves of the stored configuration.
RenderFrame(o, r, t) ==
    /\ tdEnvironments' = [tdEnvironments EXCEPT ![o] = EnvironmentsAfter(o, r, t)]
    /\ UNCHANGED <<tdFamily, tdCommands, tdVolumes, tdStreamArg, tdAwslogStream,
                   clusterName, services, runtask, repo, tag>>

\* Mutant: the service is sent the definition it already points at instead of
\* the ARN handed to generate_args.
SvcGenerateArgs_Stale(service, cluster_name, task_arn) ==
    [cluster        |-> cluster_name,
     service        |-> service.name,
     taskDefinition |-> cpSvcTd[service.name]]

\* EcsServiceConfig.generate_args(cluster_name, task_arn)
SvcGenerateArgs(service, cluster_name, task_arn) ==
    [cluster        |-> cluster_name,
     service        |-> service.name,
     taskDefinition |-> task_arn]

\* Mutant: the run request asks for two instances.
RunTaskArgs_Two(cluster_name, task_arn) ==
    [cluster        |-> cluster_name,
     taskDefinition |-> task_arn,
     count          |-> 2]

\* The keyword arguments of client.run_task in create_runtask.
RunTaskArgs(cluster_name, task_arn) ==
    [cluster        |-> cluster_name,
     taskDefinition |-> task_arn,
     count          |-> 1]

\* ------------------------------------------------------------------ errors

RuntimeError(m) == [type |-> "RuntimeError", msg |-> m]
RegisterFailMsg == "Update ECS task Fail"
\* Mutant: update_service raises with the message of update_task_definition.
UpdateFailMsg_Copied == "Update ECS task Fail"
UpdateFailMsg == "Update ECS service fail"
RunFailMsg == "Describe ECS service Fail"

\* The message of the RuntimeError raised for a status other than 200
\* (describe_task_definition's status is not looked at).
StatusMsg(call) ==
    CASE call = "register" -> RegisterFailMsg
      [] call = "update" -> UpdateFailMsg
      [] OTHER -> RunFailMsg

\* An error raised by the client: the code neither catches nor wraps it.
ClientRaised(e) == [type |-> e, msg |-> ""]

\* ------------------------------------------------------------------ the log

Entry(call, out, payload, svcArgs, runArgs, a) ==
    [call |-> call, idx |-> idx, out |-> out, payload |-> payload,
     svcArgs |-> svcArgs, runArgs |-> runArgs, arn |-> a]

\* ---------------------------------------------------------------- helpers

\* The task definition update_task_definition was called with.
CurTd == IF op = "deploy" THEN services[idx].td ELSE runtask

\* The running method ends by raising e to its caller.
Raise(e) ==
    /\ pc' = "idle"
    /\ outcome' = "raised"
    /\ raised' = e

\* The step of the orchestration a client call belongs to.
StepOf(call) ==
    CASE call \in {"describe", "register"} -> "task definition"
      [] call = "update" -> "service update"
      [] OTHER -> "run task"

\* Mutant: create_deployment catches the error of a service and goes on with
\* the next one (best effort).
Propagate_BestEffort(e) ==
    IF op = "deploy" /\ idx < Len(services)
    THEN /\ pc' = "describe"
         /\ idx' = idx + 1
         /\ UNCHANGED <<outcome, raised>>
    ELSE /\ Raise(e)
         /\ idx' = idx

\* Mutant: the failed call is issued again.
Propagate_Retry(e) ==
    /\ pc' = pc
    /\ idx' = idx
    /\ UNCHANGED <<outcome, raised>>

\* An exception raised while a client call is handled (by the client, or by
\* the status check after it): neither update_task_definition nor
\* update_service, nor the for loop of create_deployment, nor create_runtask
\* catches it, so the method ends there and its caller gets e.
Propagate(e) ==
    /\ Raise(e)
    /\ idx' = idx

\* The running method returns.
Return ==
    /\ pc' = "idle"
    /\ outcome' = "returned"
    /\ raised' = NoError

\* ------------------------------------------------------ the secret store

\* Secret names and prefixes are strings, modelled as sequences of characters.
Names == {<<"a">>, <<"b">>, <<"a", "a">>, <<"a", "b">>, <<"b", "a">>, <<"b", "b">>}
Prefixes == {<< >>, <<"a">>, <<"b">>, <<"a", "a">>, <<"a", "b">>, <<"b", "a">>,
             <<"b", "b">>}
Values == {"v1", "v2"}

\* Store contents: at most MaxSecrets secrets, each name stored once.
Stores == UNION {[S -> Values] : S \in {S \in SUBSET Names : Cardinality(S) <= MaxSecrets}}

EmptyMap == [k \in {} |-> ""]
NoMapping == [has |-> FALSE, map |-> EmptyMap]
NoSecretError == [type |-> "", msg |-> "", name |-> << >>]

\* The name filter of batch_get_secret_value: the names that begin with the
\* filter value.
StartsWith(name, p) ==
    /\ Len(p) <= Len(name)
    /\ SubSeq(name, 1, Len(p)) = p

Matching(filter) == {n \in DOMAIN store : StartsWith(n, filter)}

\* The sequences without repetition over a set of names.
RECURSIVE Orderings(_)
Orderings(S) ==
    {<< >>} \cup UNION {{<<x>> \o q : q \in Orderings(S \ {x})} : x \in S}

\* Line 42: "MaxResults": 20
MaxResults == 20

\* The responses the store may give to a request with the arguments args,
\* after it has served the names in done: a page of at least one and at most
\* args.MaxResults of the remaining secrets whose name matches args.Filter,
\* with a NextToken when secrets remain after it (the token is the number of
\* names served so far).
Pages(args, done) ==
    LET filter == args.Filter
        rest == Matching(filter) \ done IN
    IF rest = {}
    THEN {[SecretValues |-> << >>, NextToken |-> 0]}
    ELSE {[SecretValues |-> [i \in 1..Len(q) |->
                                [Name |-> q[i], SecretString |-> store[q[i]]]],
           NextToken |-> IF Cardinality(done) + Len(q) < Cardinality(Matching(filter))
                         THEN Cardinality(done) + Len(q)
                         ELSE 0] :
            q \in {q \in Orderings(rest) : Len(q) >= 1 /\ Len(q) <= args.MaxResults}}

PageNames(page) == {page.SecretValues[i].Name : i \in 1..Len(page.SecretValues)}

\* --------------------------------------------------------- fetch_secrets

\* Mutant: the name is used as the key as it is stored.
StripPrefix_Kept(name, prefix_length) == name

\* Line 47/53: secret["Name"][prefix_length:]
StripPrefix(name, prefix_length) == SubSeq(name, prefix_length + 1, Len(name))

\* result[key] = value
Put(m, k, v) == [x \in DOMAIN m \cup {k} |-> IF x = k THEN v ELSE m[x]]

\* Line 46-47 / 52-53: the for loop over response["SecretValues"].
RECURSIVE AddPage(_, _, _)
AddPage(result, values, prefix_length) ==
    IF values = << >>
    THEN result
    ELSE AddPage(Put(result, StripPrefix(Head(values).Name, prefix_length),
                     Head(values).SecretString),
                 Tail(values), prefix_length)

\* Line 35-43: the arguments of the first request.
FirstArgs == [Filter |-> prefix, MaxResults |-> MaxResults, NextToken |-> 0]

SecretsError == [type |-> "RuntimeError", msg |-> "Failed to fetch secrets with prefix ",
                 name |-> prefix]

\* Line 49/54: the loop goes on while the response carries a token; without
\* one fetch_secrets returns result.
AfterPage(result, page) ==
    IF page.NextToken # 0
    THEN /\ sPc' = "paging"
         /\ sToken' = page.NextToken
         /\ sResult' = result
         /\ sOutcome' = "none"
         /\ sReturned' = NoMapping
         /\ sRaised' = NoSecretError
    ELSE /\ sPc' = "idle"
         /\ sToken' = 0
         /\ sResult' = result
         /\ sOutcome' = "returned"
         /\ sReturned' = [has |-> TRUE, map |-> result]
         /\ sRaised' = NoSecretError

\* Mutant: what was accumulated is returned when a page fails.
OnFetchError_ReturnsPartial(result) ==
    /\ sPc' = "idle"
    /\ sOutcome' = "returned"
    /\ sReturned' = [has |-> TRUE, map |-> result]
    /\ sRaised' = NoSecretError

\* Line 55-56: any exception of the try block is replaced by one RuntimeError
\* naming the prefix; result is dropped.
OnFetchError(result) ==
    /\ sPc' = "idle"
    /\ sOutcome' = "raised"
    /\ sReturned' = NoMapping
    /\ sRaised' = SecretsError

Request(args, out, page) == [args |-> args, out |-> out, page |-> page]
NoPage == [SecretValues |-> << >>, NextToken |-> 0]

\* A call of fetch_secrets issues no get_secret_value.
NoGets ==
    /\ sKey' = << >>
    /\ sGets' = << >>
    /\ sValue' = ""

\* Line 33-47: the call of fetch_secrets and its first request, answered.
FetchSecretsOk ==
    /\ sPc = "idle"
    /\ \E page \in Pages(FirstArgs, {}) :
        /\ served' = PageNames(page)
        /\ sLog' = <<Request(FirstArgs, "ok", page)>>
        /\ AfterPage(AddPage(EmptyMap, page.SecretValues, Len(prefix)), page)
    /\ sOp' = "fetch_secrets"
    /\ NoGets
    /\ UNCHANGED <<ecs, store, prefix>>

\* The first request raises.
FetchSecretsRaise ==
    /\ sPc = "idle"
    /\ sLog' = <<Request(FirstArgs, "raise", NoPage)>>
    /\ sResult' = EmptyMap
    /\ sToken' = 0
    /\ OnFetchError(EmptyMap)
    /\ sOp' = "fetch_secrets"
    /\ NoGets
    /\ UNCHANGED <<ecs, store, prefix, served>>

\* Mutant: the continuation request is sent without the token.
NextArgs_NoToken == [Filter |-> prefix, MaxResults |-> MaxResults, NextToken |-> 0]

\* Line 50: args["NextToken"] = response.get("NextToken")
NextArgs == [Filter |-> prefix, MaxResults |-> MaxResults, NextToken |-> sToken]

\* Line 49-53: a continuation request, answered.  The store goes on from its
\* cursor when the request carries the token it handed out.
NextPageOk ==
    /\ sPc = "paging"
    /\ NextArgs.NextToken = Cardinality(served)
    /\ \E page \in Pages(NextArgs, served) :
        /\ served' = served \cup PageNames(page)
        /\ sLog' = Append(sLog, Request(NextArgs, "ok", page))
        /\ AfterPage(AddPage(sResult, page.SecretValues, Len(prefix)), page)
    /\ UNCHANGED <<ecs, store, prefix, sOp, single>>

\* A continuation request raises.
NextPageRaise ==
    /\ sPc = "paging"
    /\ sLog' = Append(sLog, Request(NextArgs, "raise", NoPage))
    /\ OnFetchError(sResult)
    /\ UNCHANGED <<ecs, store, prefix, served, sResult, sToken, sOp, single>>

\* ------------------------------------- fetch_secrets, responses as they come

\* fetch_secrets reads what a response holds and checks nothing: here the
\* responses are any pages of at most MaxPageLen entries, so that a name may
\* come twice, on one page or on two, and need not begin with the prefix.
MaxPageLen == 2
MaxPages == 2
AnyEntries == [Name : {<<"a">>, <<"a", "b">>, <<"b", "b">>}, SecretString : Values]
AnyPages ==
    [SecretValues : UNION {[1..n -> AnyEntries] : n \in 0..MaxPageLen},
     NextToken : {0, 1}]

\* Line 33-47: the call of fetch_secrets and its first request, answered.
FetchSecretsAnyPage ==
    /\ sPc = "idle"
    /\ \E page \in AnyPages :
        /\ sLog' = <<Request(FirstArgs, "ok", page)>>
        /\ AfterPage(AddPage(EmptyMap, page.SecretValues, Len(prefix)), page)
    /\ sOp' = "fetch_secrets"
    /\ NoGets
    /\ UNCHANGED <<ecs, store, prefix, served>>

\* Line 49-53: a continuation request, answered; the last page of a listing
\* carries no token.
NextAnyPage ==
    /\ sPc = "paging"
    /\ \E page \in AnyPages :
        /\ Len(sLog) + 1 = MaxPages => page.NextToken = 0
        /\ sLog' = Append(sLog, Request(NextArgs, "ok", page))
        /\ AfterPage(AddPage(sResult, page.SecretValues, Len(prefix)), page)
    /\ UNCHANGED <<ecs, store, prefix, served, sOp, single>>

\* The keys fetch_secret is called with.
Keys == {<< >>} \cup Names

\* Line 72: SecretId=f"{self.prefix}{key}"
SecretId(key) == prefix \o key

Get(id, out, value) == [SecretId |-> id, out |-> out, value |-> value]

\* Mutant: the error of fetch_secrets is raised, which names the prefix.
SecretError_Bulk(key) == SecretsError

\* Line 74: RuntimeError(f"Failed to fetch secret with name {self.prefix}{key}")
SecretError(key) ==
    [type |-> "RuntimeError", msg |-> "Failed to fetch secret with name ",
     name |-> SecretId(key)]

\* A call of fetch_secret issues no batch_get_secret_value.
NoRequests ==
    /\ sLog' = << >>
    /\ sResult' = EmptyMap
    /\ sToken' = 0
    /\ sReturned' = NoMapping

\* Line 71-72: get_secret_value(SecretId=prefix + key) answers with the
\* secret of that name and fetch_secret returns its SecretString.
FetchSecretOk ==
    /\ sPc = "idle"
    /\ \E key \in Keys :
        /\ SecretId(key) \in DOMAIN store
        /\ sKey' = key
        /\ sGets' = <<Get(SecretId(key), "ok", store[SecretId(key)])>>
        /\ sValue' = store[SecretId(key)]
    /\ sOp' = "fetch_secret"
    /\ sOutcome' = "returned"
    /\ sRaised' = NoSecretError
    /\ NoRequests
    /\ UNCHANGED <<ecs, store, prefix, served, sPc>>

\* Line 73-74: get_secret_value raises (no secret of that name, or the call
\* fails for another reason) and fetch_secret raises one RuntimeError that
\* names prefix + key.
FetchSecretRaise ==
    /\ sPc = "idle"
    /\ \E key \in Keys :
        /\ sKey' = key
        /\ sGets' = <<Get(SecretId(key), "raise", "")>>
        /\ sRaised' = SecretError(key)
    /\ sValue' = ""
    /\ sOp' = "fetch_secret"
    /\ sOutcome' = "raised"
    /\ NoRequests
    /\ UNCHANGED <<ecs, store, prefix, served, sPc>>

\* ------------------------------------------------------------------- Init

ServiceConfigs == [name : ServiceNames, td : TdObjs]

\* Volume mappings: at most MaxVolumes paths, each path once, each mapped to
\* a volume definition that has a name or has none.
MaxVolumes == 2
Paths == {"/a", "/b", "/c"}
VolumeDefs ==
    {[hasName |-> TRUE, name |-> "v1"], [hasName |-> TRUE, name |-> "v2"],
     [hasName |-> FALSE, name |-> ""]}
VolumeDicts ==
    {q \in UNION {[1..n -> [path : Paths, volume : VolumeDefs]] : n \in 0..MaxVolumes} :
        \A i, j \in 1..Len(q) : i # j => q[i].path # q[j].path}

\* Static environment lists of at most MaxEnvs entries; an entry may bear the
\* name of a dynamic one.
MaxEnvs == 2
EnvEntries == {[name |-> "A", value |-> "1"], [name |-> "IMAGE_TAG", value |-> "old"]}
EnvLists == UNION {[1..n -> EnvEntries] : n \in 0..MaxEnvs}

StreamArgs == {"", "stream"}
Repos == {"repo/url", "repo/alt"}
Tags == {"v1", "v2"}

NoRender ==
    [called |-> FALSE, of |-> None, repo |-> "", tag |-> "", raised |-> NoError,
     args |-> NoPayload]

\* Task definitions constructed with the defaults of line 39-44: no volumes,
\* no environments, no awslog_stream.
DefaultRender ==
    /\ tdVolumes = [o \in TdObjs |-> << >>]
    /\ tdEnvironments = [o \in TdObjs |-> << >>]
    /\ tdStreamArg = [o \in TdObjs |-> ""]
    /\ tdAwslogStream = [o \in TdObjs |-> PostInit(tdFamily[o], tdStreamArg[o])]
    /\ rendered = NoRender

ServiceLists == UNION {[1..n -> ServiceConfigs] : n \in 0..MaxServices}

Init ==
    /\ tdFamily = [o \in TdObjs |-> IF o = "t1" THEN "fa" ELSE "fb"]
    /\ tdCommands \in [TdObjs -> {<< >>, <<"serve">>}]
    /\ clusterName = "default"
    /\ services \in ServiceLists
    /\ runtask \in TdObjs \cup {None}
    /\ repo = "repo/url"
    /\ tag = "v1"
    /\ cpRev \in [Families -> {0, 1}]
    /\ cpSvcTd = [s \in ServiceNames |-> NoArn]
    /\ cpTasks = << >>
    /\ op = "none"
    /\ pc = "idle"
    /\ idx = 0
    /\ tdDict = NoPayload
    /\ arn = NoArn
    /\ given = NoCommands
    /\ log = << >>
    /\ outcome = "none"
    /\ raised = NoError
    /\ runs = 0
    /\ DefaultRender
    /\ store = EmptyMap
    /\ prefix = << >>
    /\ served = {}
    /\ sPc = "idle"
    /\ sResult = EmptyMap
    /\ sToken = 0
    /\ sLog = << >>
    /\ sOutcome = "none"
    /\ sReturned = NoMapping
    /\ sRaised = NoSecretError
    /\ sOp = "none"
    /\ sKey = << >>
    /\ sGets = << >>
    /\ sValue = ""

\* SecretManagerService(prefix) in front of a store holding any secrets.
SecretsInit ==
    /\ tdFamily = [o \in TdObjs |-> IF o = "t1" THEN "fa" ELSE "fb"]
    /\ tdCommands = [o \in TdObjs |-> << >>]
    /\ clusterName = "default"
    /\ services = << >>
    /\ runtask = None
    /\ repo = "repo/url"
    /\ tag = "v1"
    /\ cpRev = [f \in Families |-> 0]
    /\ cpSvcTd = [s \in ServiceNames |-> NoArn]
    /\ cpTasks = << >>
    /\ op = "none"
    /\ pc = "idle"
    /\ idx = 0
    /\ tdDict = NoPayload
    /\ arn = NoArn
    /\ given = NoCommands
    /\ log = << >>
    /\ outcome = "none"
    /\ raised = NoError
    /\ runs = 0
    /\ DefaultRender
    /\ store \in Stores
    /\ prefix \in Prefixes
    /\ served = {}
    /\ sPc = "idle"
    /\ sResult = EmptyMap
    /\ sToken = 0
    /\ sLog = << >>
    /\ sOutcome = "none"
    /\ sReturned = NoMapping
    /\ sRaised = NoSecretError
    /\ sOp = "none"
    /\ sKey = << >>
    /\ sGets = << >>
    /\ sValue = ""

\* Everything but the task definitions is at rest: no invocation was made.
AtRest ==
    /\ clusterName = "default"
    /\ repo = "repo/url"
    /\ tag = "v1"
    /\ cpSvcTd = [s \in ServiceNames |-> NoArn]
    /\ cpTasks = << >>
    /\ op = "none"
    /\ pc = "idle"
    /\ idx = 0
    /\ tdDict = NoPayload
    /\ arn = NoArn
    /\ given = NoCommands
    /\ log = << >>
    /\ outcome = "none"
    /\ raised = NoError
    /\ runs = 0
    /\ rendered = NoRender
    /\ store = EmptyMap
    /\ prefix = << >>
    /\ served = {}
    /\ sPc = "idle"
    /\ sResult = EmptyMap
    /\ sToken = 0
    /\ sLog = << >>
    /\ sOutcome = "none"
    /\ sReturned = NoMapping
    /\ sRaised = NoSecretError
    /\ sOp = "none"
    /\ sKey = << >>
    /\ sGets = << >>
    /\ sValue = ""

\* A cluster whose task definitions hold no volume, a volume with a name, or
\* a volume definition without one.
VolumeInit ==
    /\ tdFamily = [o \in TdObjs |-> IF o = "t1" THEN "fa" ELSE "fb"]
    /\ tdCommands = [o \in TdObjs |-> <<"serve">>]
    /\ tdVolumes \in [TdObjs -> {q \in VolumeDicts :
                                    /\ Len(q) <= 1
                                    /\ \A i \in 1..Len(q) :
                                        q[i].path = "/a" /\ q[i].volume.name # "v2"}]
    /\ tdEnvironments = [o \in TdObjs |-> << >>]
    /\ tdStreamArg = [o \in TdObjs |-> ""]
    /\ tdAwslogStream = [o \in TdObjs |-> PostInit(tdFamily[o], tdStreamArg[o])]
    /\ services \in ServiceLists
    /\ runtask \in TdObjs \cup {None}
    /\ cpRev = [f \in Families |-> 1]
    /\ AtRest

\* Task definitions constructed from any family, volumes, environments and
\* awslog_stream argument, in front of no cluster.
RenderInit ==
    /\ \E f \in Families : tdFamily = [o \in TdObjs |-> IF o = "t1" THEN f ELSE "fb"]
    /\ tdCommands = [o \in TdObjs |-> <<"serve">>]
    /\ \E v \in VolumeDicts : tdVolumes = [o \in TdObjs |-> IF o = "t1" THEN v ELSE << >>]
    /\ \E l \in EnvLists : tdEnvironments = [o \in TdObjs |-> IF o = "t1" THEN l ELSE << >>]
    /\ tdStreamArg \in [TdObjs -> StreamArgs]
    /\ tdAwslogStream = [o \in TdObjs |-> PostInit(tdFamily[o], tdStreamArg[o])]
    /\ services = << >>
    /\ runtask = None
    /\ cpRev = [f \in Families |-> 0]
    /\ AtRest

\* One process that holds an EcsDeployService over a cluster of two services
\* and a SecretManagerService in front of a store of two secrets, as the
\* tests set them up side by side.
JointInit ==
    /\ tdFamily = [o \in TdObjs |-> IF o = "t1" THEN "fa" ELSE "fb"]
    /\ tdCommands = [o \in TdObjs |-> <<"serve">>]
    /\ clusterName = "default"
    /\ services = <<[name |-> "s1", td |-> "t1"], [name |-> "s2", td |-> "t2"]>>
    /\ runtask \in {"t1", None}
    /\ repo = "repo/url"
    /\ tag = "v1"
    /\ cpRev = [f \in Families |-> 1]
    /\ cpSvcTd = [s \in ServiceNames |-> NoArn]
    /\ cpTasks = << >>
    /\ op = "none"
    /\ pc = "idle"
    /\ idx = 0
    /\ tdDict = NoPayload
    /\ arn = NoArn
    /\ given = NoCommands
    /\ log = << >>
    /\ outcome = "none"
    /\ raised = NoError
    /\ runs = 0
    /\ DefaultRender
    /\ store = [n \in {<<"a">>, <<"a", "b">>} |-> IF n = <<"a">> THEN "v1" ELSE "v2"]
    /\ prefix \in {<< >>, <<"a">>}
    /\ served = {}
    /\ sPc = "idle"
    /\ sResult = EmptyMap
    /\ sToken = 0
    /\ sLog = << >>
    /\ sOutcome = "none"
    /\ sReturned = NoMapping
    /\ sRaised = NoSecretError
    /\ sOp = "none"
    /\ sKey = << >>
    /\ sGets = << >>
    /\ sValue = ""

\* ------------------------------------------------------------ generate_args

Called(o, r, t, e, args) ==
    [called |-> TRUE, of |-> o, repo |-> r, tag |-> t, raised |-> e, args |-> args]

\* Line 52-110: generate_args(repo, tag) returns the payload.
GenerateArgs ==
    /\ \E o \in TdObjs, r \in Repos, t \in Tags :
        /\ ~RenderRaises(o)
        /\ rendered' = Called(o, r, t, NoError, TdGenerateArgs(o, r, t))
        /\ RenderFrame(o, r, t)
    /\ UNCHANGED <<secrets, plane, locals>>

\* Line 95: generate_args raises KeyError.
GenerateArgsRaise ==
    /\ \E o \in TdObjs, r \in Repos, t \in Tags :
        /\ RenderRaises(o)
        /\ rendered' = Called(o, r, t, KeyError, NoPayload)
        /\ RenderFrame(o, r, t)
    /\ UNCHANGED <<secrets, plane, locals>>

\* ------------------------------------------------- update_task_definition

\* Line 183-184: render the task definition, then
\* describe_task_definition(taskDefinition=family).  The control plane knows
\* the family and the call returns; its response is not looked at.
DescribeOk ==
    /\ pc = "describe"
    /\ ~RenderRaises(CurTd)
    /\ LET payload == TdGenerateArgs(CurTd, repo, tag) IN
        /\ cpRev[payload.family] > 0
        /\ tdDict' = payload
        /\ log' = Append(log, Entry("describe", "ok", payload, NoSvcArgs, NoRunArgs, NoArn))
    /\ pc' = "register"
    /\ RenderFrame(CurTd, repo, tag)
    /\ UNCHANGED <<secrets, rendered, plane, op, idx, arn, given, outcome, raised, runs>>

\* Mutant: the error of the existence check is swallowed and the registration
\* goes ahead.
OnDescribeError_Ignored(e) ==
    /\ pc' = "register"
    /\ idx' = idx
    /\ UNCHANGED <<outcome, raised>>

\* Line 184 stands in no try block: what describe_task_definition raises
\* leaves update_task_definition.
OnDescribeError(e) == Propagate(e)

\* The describe call raises (the family is unknown, or the call fails for
\* another reason).
DescribeRaise ==
    /\ pc = "describe"
    /\ ~RenderRaises(CurTd)
    /\ \E e \in CollabErrors :
        LET payload == TdGenerateArgs(CurTd, repo, tag) IN
        /\ tdDict' = payload
        /\ log' = Append(log, Entry("describe", "raise", payload, NoSvcArgs, NoRunArgs, NoArn))
        /\ OnDescribeError(ClientRaised(e))
    /\ RenderFrame(CurTd, repo, tag)
    /\ UNCHANGED <<secrets, rendered, plane, op, arn, given, runs>>

\* Line 183: generate_args raises KeyError for a volume definition without a
\* name; update_task_definition has made no client call yet and does not
\* catch it, nor does its caller.
RenderRaise ==
    /\ pc = "describe"
    /\ RenderRaises(CurTd)
    /\ Propagate(KeyError)
    /\ RenderFrame(CurTd, repo, tag)
    /\ UNCHANGED <<secrets, rendered, plane, op, tdDict, arn, given, log, runs>>

\* Where the caller of update_task_definition goes on with the returned ARN:
\* update_service in create_deployment, run_task in create_runtask.
AfterRegister == IF op = "deploy" THEN "update" ELSE "run"

\* Line 187-192: register_task_definition(**task_definition_dict) answers
\* 200: the control plane holds a new revision of the family, whose ARN is
\* returned.
RegisterOk ==
    /\ pc = "register"
    /\ LET new == [family |-> tdDict.family, rev |-> cpRev[tdDict.family] + 1] IN
        /\ cpRev' = [cpRev EXCEPT ![tdDict.family] = new.rev]
        /\ arn' = new
        /\ log' = Append(log, Entry("register", "ok", tdDict, NoSvcArgs, NoRunArgs, new))
    /\ pc' = AfterRegister
    /\ UNCHANGED <<secrets, rendered, config, cpSvcTd, cpTasks, op, idx, tdDict, given, outcome, raised, runs>>

\* Mutant: the status of the registration response is not checked.
RegisterStatus_Unchecked ==
    /\ pc' = AfterRegister
    /\ idx' = idx
    /\ UNCHANGED <<outcome, raised>>

\* Line 189-190: a status other than 200 raises RuntimeError.
RegisterStatusFailed == Propagate(RuntimeError(RegisterFailMsg))

\* The response of register_task_definition carries another status.
RegisterNon200 ==
    /\ pc = "register"
    /\ log' = Append(log, Entry("register", "non200", tdDict, NoSvcArgs, NoRunArgs, NoArn))
    /\ RegisterStatusFailed
    /\ UNCHANGED <<secrets, rendered, config, plane, op, tdDict, arn, given, runs>>

RegisterRaise ==
    /\ pc = "register"
    /\ \E e \in CollabErrors :
        /\ log' = Append(log, Entry("register", "raise", tdDict, NoSvcArgs, NoRunArgs, NoArn))
        /\ Propagate(ClientRaised(e))
    /\ UNCHANGED <<secrets, rendered, config, plane, op, tdDict, arn, given, runs>>

\* ---------------------------------------------------------- update_service

\* Mutant: create_deployment returns after its first service.
NextService_StopsAfterFirst ==
    /\ idx' = idx
    /\ Return

\* Line 203: the for loop takes the next service, or create_deployment
\* returns.
NextService ==
    IF idx < Len(services)
    THEN /\ idx' = idx + 1
         /\ pc' = "describe"
         /\ UNCHANGED <<outcome, raised>>
    ELSE /\ idx' = idx
         /\ Return

\* Line 195-199: update_service(**update_service_args) answers 200.
UpdateOk ==
    /\ pc = "update"
    /\ LET args == SvcGenerateArgs(services[idx], clusterName, arn) IN
        /\ cpSvcTd' = [cpSvcTd EXCEPT ![args.service] = args.taskDefinition]
        /\ log' = Append(log, Entry("update", "ok", NoPayload, args, NoRunArgs, NoArn))
    /\ NextService
    /\ UNCHANGED <<secrets, rendered, config, cpRev, cpTasks, op, tdDict, arn, given, runs>>

\* Mutant: when the update fails the revision just registered is deregistered.
NothingUndone_Deregisters ==
    /\ cpRev' = [cpRev EXCEPT ![arn.family] = arn.rev - 1]
    /\ UNCHANGED <<cpSvcTd, cpTasks>>

\* Line 196-199: update_service raises and nothing else is called: what was
\* registered and updated before stays as it is.
NothingUndone == UNCHANGED <<cpRev, cpSvcTd, cpTasks>>

UpdateNon200 ==
    /\ pc = "update"
    /\ LET args == SvcGenerateArgs(services[idx], clusterName, arn) IN
        log' = Append(log, Entry("update", "non200", NoPayload, args, NoRunArgs, NoArn))
    /\ Propagate(RuntimeError(UpdateFailMsg))
    /\ NothingUndone
    /\ UNCHANGED <<secrets, rendered, config, op, tdDict, arn, given, runs>>

UpdateRaise ==
    /\ pc = "update"
    /\ \E e \in CollabErrors :
        LET args == SvcGenerateArgs(services[idx], clusterName, arn) IN
        /\ log' = Append(log, Entry("update", "raise", NoPayload, args, NoRunArgs, NoArn))
        /\ Propagate(ClientRaised(e))
    /\ NothingUndone
    /\ UNCHANGED <<secrets, rendered, config, op, tdDict, arn, given, runs>>

\* ------------------------------------------------------- create_deployment

\* Line 201-204: the call of create_deployment, up to its first client call.
CreateDeployment ==
    /\ pc = "idle"
    /\ runs < MaxRuns
    /\ runs' = runs + 1
    /\ op' = "deploy"
    /\ log' = << >>
    /\ tdDict' = NoPayload
    /\ arn' = NoArn
    /\ given' = NoCommands
    /\ IF services = << >>
       THEN /\ idx' = 0
            /\ Return
       ELSE /\ idx' = 1
            /\ pc' = "describe"
            /\ outcome' = "none"
            /\ raised' = NoError
    /\ UNCHANGED <<secrets, rendered, config, plane>>

\* ---------------------------------------------------------- create_runtask

\* Mutant: a missing runtask spec is reported as an error.
NoRuntask_Raises == Raise(RuntimeError("runtask is not configured"))

\* Line 217-218: without a runtask spec create_runtask returns at once.
NoRuntask == Return

\* Mutant: the override is used for this call only and is not stored.
OverrideCommands_NotStored(commands) == tdCommands

\* Mutant: any list, the empty one too, replaces the stored commands.
OverrideCommands_Always(commands) ==
    IF commands.isList
    THEN [tdCommands EXCEPT ![runtask] = commands.items]
    ELSE tdCommands

\* Line 220-221: a non-empty list replaces the commands stored on the spec.
OverrideCommands(commands) ==
    IF commands.isList /\ Len(commands.items) > 0
    THEN [tdCommands EXCEPT ![runtask] = commands.items]
    ELSE tdCommands

\* Line 207-222: the call of create_runtask(commands), up to its first client
\* call.
CreateRuntask ==
    /\ pc = "idle"
    /\ runs < MaxRuns
    /\ runs' = runs + 1
    /\ \E commands \in CommandArgs :
        /\ given' = commands
        /\ IF runtask = None
           THEN /\ tdCommands' = tdCommands
                /\ NoRuntask
           ELSE /\ tdCommands' = OverrideCommands(commands)
                /\ pc' = "describe"
                /\ outcome' = "none"
                /\ raised' = NoError
    /\ op' = "runtask"
    /\ idx' = 0
    /\ log' = << >>
    /\ tdDict' = NoPayload
    /\ arn' = NoArn
    /\ UNCHANGED <<secrets, rendered, tdFamily, tdRender, clusterName, services, runtask,
                   repo, tag, plane>>

\* Line 224-230: run_task(cluster, taskDefinition, count=1) answers 200.
RunOk ==
    /\ pc = "run"
    /\ LET args == RunTaskArgs(clusterName, arn) IN
        /\ cpTasks' = Append(cpTasks, args)
        /\ log' = Append(log, Entry("run", "ok", NoPayload, NoSvcArgs, args, NoArn))
    /\ Return
    /\ UNCHANGED <<secrets, rendered, config, cpRev, cpSvcTd, op, idx, tdDict, arn, given, runs>>

RunNon200 ==
    /\ pc = "run"
    /\ LET args == RunTaskArgs(clusterName, arn) IN
        log' = Append(log, Entry("run", "non200", NoPayload, NoSvcArgs, args, NoArn))
    /\ Propagate(RuntimeError(RunFailMsg))
    /\ UNCHANGED <<secrets, rendered, config, plane, op, tdDict, arn, given, runs>>

RunRaise ==
    /\ pc = "run"
    /\ \E e \in CollabErrors :
        LET args == RunTaskArgs(clusterName, arn) IN
        /\ log' = Append(log, Entry("run", "raise", NoPayload, NoSvcArgs, args, NoArn))
        /\ Propagate(ClientRaised(e))
    /\ UNCHANGED <<secrets, rendered, config, plane, op, tdDict, arn, given, runs>>

\* ------------------------------------------------------------------- Next

Next ==
    \/ CreateDeployment
    \/ CreateRuntask
    \/ DescribeOk
    \/ DescribeRaise
    \/ RegisterOk
    \/ RegisterNon200
    \/ RegisterRaise
    \/ UpdateOk
    \/ UpdateNon200
    \/ UpdateRaise
    \/ RunOk
    \/ RunNon200
    \/ RunRaise

Spec == Init /\ [][Next]_vars

SecretsNext ==
    \/ FetchSecretsOk
    \/ FetchSecretsRaise
    \/ NextPageOk
    \/ NextPageRaise

SecretsSpec == SecretsInit /\ [][SecretsNext]_vars

FetchSecretNext ==
    \/ FetchSecretOk
    \/ FetchSecretRaise

FetchSecretSpec == SecretsInit /\ [][FetchSecretNext]_vars

\* SecretManagerService(prefix) in front of a client whose responses are not
\* constrained.
AnyStoreInit ==
    /\ SecretsInit
    /\ store = EmptyMap

AnyStoreNext ==
    \/ FetchSecretsAnyPage
    \/ NextAnyPage
    \/ FetchSecretsRaise
    \/ NextPageRaise

AnyStoreSpec == AnyStoreInit /\ [][AnyStoreNext]_vars

\* One invocation of the orchestrator, any number of the aggregator.
JointNext ==
    \/ runs = 0 /\ CreateDeployment
    \/ runs = 0 /\ CreateRuntask
    \/ DescribeOk
    \/ DescribeRaise
    \/ RegisterOk
    \/ RegisterNon200
    \/ RegisterRaise
    \/ UpdateOk
    \/ UpdateNon200
    \/ UpdateRaise
    \/ RunOk
    \/ RunNon200
    \/ RunRaise
    \/ SecretsNext
    \/ FetchSecretNext

JointSpec == JointInit /\ [][JointNext]_vars

VolumeNext ==
    \/ Next
    \/ RenderRaise

VolumeSpec == VolumeInit /\ [][VolumeNext]_vars

RenderNext ==
    \/ GenerateArgs
    \/ GenerateArgsRaise

RenderSpec == RenderInit /\ [][RenderNext]_vars

\* =================================================================== claims

Last == log[Len(log)]
Failed(k) == log[k].out # "ok"
CallStarted == runs' = runs + 1

\* ----------------------------------------------------------------------- C1
\* C1: fail-fast deployment.  In a run of create_deployment, once the
\* existence check, the registration or the service update of the service at
\* position i has failed, create_deployment has ended by raising that failure
\* to its caller and the run holds no call for a service at a position > i.
C1_FailFast ==
    op = "deploy" =>
        \A k \in 1..Len(log) :
            Failed(k) =>
                /\ pc = "idle"
                /\ outcome = "raised"
                /\ log[k].out = "non200" =>
                    raised = RuntimeError(StatusMsg(log[k].call))
                /\ log[k].out = "raise" => raised.type \in CollabErrors
                /\ \A m \in 1..Len(log) : log[m].idx <= log[k].idx

\* A two-service deployment whose first service failed at its update.
C1_Witness ==
    /\ op = "deploy"
    /\ Len(services) = 2
    /\ outcome = "raised"
    /\ \E k \in 1..Len(log) :
        Failed(k) /\ log[k].idx = 1 /\ log[k].call = "update"

\* ----------------------------------------------------------------------- C2
\* C2: sequential ordering.  The calls of a run of create_deployment are, in
\* order, describe, register, update for services[1], then for services[2],
\* and so on: the k-th call is for the service at position (k-1) div 3 + 1,
\* a call is issued only after every earlier one has returned successfully,
\* the registration is of that service's task definition and the update names
\* that service.  A run that returns has issued exactly one registration and
\* one update per service.
CallOrder == <<"describe", "register", "update">>

C2_Sequential ==
    op = "deploy" =>
        /\ \A k \in 1..Len(log) :
            /\ log[k].call = CallOrder[((k - 1) % 3) + 1]
            /\ log[k].idx = ((k - 1) \div 3) + 1
            /\ log[k].idx <= Len(services)
            /\ k < Len(log) => log[k].out = "ok"
            /\ log[k].call = "register" =>
                log[k].payload.family = tdFamily[services[log[k].idx].td]
            /\ log[k].call = "update" =>
                log[k].svcArgs.service = services[log[k].idx].name
        /\ (pc = "idle" /\ outcome = "returned") =>
            /\ Len(log) = 3 * Len(services)
            /\ \A i \in 1..Len(services) :
                /\ Cardinality({k \in 1..Len(log) :
                        log[k].idx = i /\ log[k].call = "register"}) = 1
                /\ Cardinality({k \in 1..Len(log) :
                        log[k].idx = i /\ log[k].call = "update"}) = 1

\* A deployment of two different services that returned.
C2_Witness ==
    /\ op = "deploy"
    /\ pc = "idle"
    /\ outcome = "returned"
    /\ Len(services) = 2
    /\ services[1] # services[2]
    /\ Len(log) = 6

\* ----------------------------------------------------------------------- C3
\* C3: every update call of a deployment carries the ARN that the
\* registration just before it, for the same service, returned; no other
\* registration of the run returned that ARN; and right after a successful
\* update the control plane's service points at that ARN, which is the
\* newest revision of its family.
C3_UpdateCarriesRegisteredArn ==
    op = "deploy" =>
        \A k \in 1..Len(log) :
            log[k].call = "update" =>
                /\ k > 1
                /\ log[k - 1].call = "register"
                /\ log[k - 1].out = "ok"
                /\ log[k - 1].idx = log[k].idx
                /\ log[k].svcArgs.taskDefinition = log[k - 1].arn
                /\ log[k].svcArgs.taskDefinition # NoArn
                /\ \A m \in 1..Len(log) :
                    (log[m].call = "register" /\ m # k - 1) =>
                        log[m].arn # log[k].svcArgs.taskDefinition
                /\ (k = Len(log) /\ log[k].out = "ok") =>
                    /\ cpSvcTd[log[k].svcArgs.service] = log[k - 1].arn
                    /\ cpRev[log[k - 1].arn.family] = log[k - 1].arn.rev

\* A second invocation updates a service to a revision that only this program
\* can have registered (the control plane starts with at most revision 1).
C3_Witness ==
    /\ op = "deploy"
    /\ runs = 2
    /\ log # << >>
    /\ Last.call = "update"
    /\ Last.out = "ok"
    /\ Last.svcArgs.taskDefinition.rev >= 3

\* ----------------------------------------------------------------------- C6
\* C6: a registration call is always directly preceded by the existence check
\* of the same payload, which returned; the registration is about to be
\* issued only for a family the control plane knows; and no step ever makes
\* a family known that was unknown before it.
C6_RegisterFollowsCheck ==
    /\ \A k \in 1..Len(log) :
        log[k].call = "register" =>
            /\ k > 1
            /\ log[k - 1].call = "describe"
            /\ log[k - 1].out = "ok"
            /\ log[k - 1].idx = log[k].idx
            /\ log[k - 1].payload = log[k].payload
    /\ pc = "register" => cpRev[tdDict.family] > 0

C6_CheckBeforeRegister ==
    /\ []C6_RegisterFollowsCheck
    /\ [][\A f \in Families : cpRev[f] = 0 => cpRev'[f] = 0]_vars

\* The existence check of an unknown family failed and the run ended there.
C6_Witness ==
    /\ log # << >>
    /\ Last.call = "describe"
    /\ Last.out = "raise"
    /\ cpRev[Last.payload.family] = 0
    /\ outcome = "raised"

\* ----------------------------------------------------------------------- C7
\* C7: update_task_definition has returned an identifier (the caller is about
\* to use it) only when the existence check returned and the registration
\* answered 200, and the identifier is the one of that answer; an existence
\* check that raised, or a registration that raised or answered another
\* status, ends the operation with an error.
C7_ArnOnlyOnSuccess ==
    /\ (pc \in {"update", "run"} \/ arn # NoArn) =>
        \E k \in 2..Len(log) :
            /\ log[k].call = "register"
            /\ log[k].out = "ok"
            /\ log[k].arn = arn
            /\ arn # NoArn
            /\ log[k - 1].call = "describe"
            /\ log[k - 1].out = "ok"
            /\ log[k - 1].idx = log[k].idx
            /\ pc \in {"update", "run"} => k = Len(log)
    /\ \A k \in 1..Len(log) :
        (log[k].call \in {"describe", "register"} /\ Failed(k)) =>
            /\ k = Len(log)
            /\ pc = "idle"
            /\ outcome = "raised"
            /\ raised # NoError

\* update_task_definition returned an ARN to create_runtask.
C7_Witness ==
    /\ pc = "run"
    /\ arn # NoArn

\* ----------------------------------------------------------------------- C8
\* The errors the handling of a client call can raise.
ErrorsOf(call) ==
    {ClientRaised(e) : e \in CollabErrors} \cup
    (IF call = "describe" THEN {} ELSE {RuntimeError(StatusMsg(call))})

StepErrors(step) ==
    UNION {ErrorsOf(c) : c \in {c \in {"describe", "register", "update", "run"} :
                                    StepOf(c) = step}}

C9_NoRuntaskNoOp ==
    [][(CallStarted /\ op' = "runtask" /\ runtask = None) =>
        /\ log' = << >>
        /\ pc' = "idle"
        /\ outcome' = "returned"
        /\ raised' = NoError
        /\ config' = config
        /\ plane' = plane]_vars

\* create_runtask was called with a non-empty override and no runtask spec.
C9_Witness ==
    /\ op = "runtask"
    /\ runtask = None
    /\ given.isList
    /\ given.items # << >>
    /\ outcome = "returned"
    /\ log = << >>

\* ---------------------------------------------------------------------- C10
\* C10: the registration of create_runtask carries the command list stored on
\* the runtask spec, and the call of create_runtask has set that list to the
\* override when the override is a non-empty list and has left it as it was
\* stored otherwise.
C10_RegisteredIsStored ==
    op = "runtask" =>
        \A k \in 1..Len(log) :
            log[k].call = "register" =>
                /\ log[k].payload.command = tdCommands[runtask]
                /\ (given.isList /\ given.items # << >>) =>
                    log[k].payload.command = given.items

C10_OverrideRegistered ==
    /\ []C10_RegisteredIsStored
    /\ [][(CallStarted /\ op' = "runtask" /\ runtask # None) =>
            tdCommands'[runtask] =
                IF given'.isList /\ given'.items # << >>
                THEN given'.items
                ELSE tdCommands[runtask]]_vars

\* The first invocation registered the override of a spec that stored
\* another command list.
C10_Witness ==
    /\ op = "runtask"
    /\ runs = 1
    /\ given.isList
    /\ given.items = <<"migrate">>
    /\ \E k \in 1..Len(log) :
        log[k].call = "register" /\ log[k].payload.command = <<"migrate">>

\* ----------------------------------------------------------------------- C4
\* C4: when fetch_secrets returns, every stored secret whose name begins with
\* the prefix has one entry, under the key that, put after the prefix, gives
\* its name, holding its value; every entry is of such a secret; there are as
\* many entries as such secrets; and with an empty prefix the keys are the
\* stored names.
C4_FetchSecretsExact ==
    sOutcome = "returned" =>
        /\ sReturned.has
        /\ \A n \in DOMAIN store :
            StartsWith(n, prefix) =>
                \E k \in DOMAIN sReturned.map :
                    prefix \o k = n /\ sReturned.map[k] = store[n]
        /\ \A k \in DOMAIN sReturned.map :
            /\ (prefix \o k) \in DOMAIN store
            /\ sReturned.map[k] = store[prefix \o k]
        /\ Cardinality(DOMAIN sReturned.map) =
            Cardinality({n \in DOMAIN store : StartsWith(n, prefix)})
        /\ prefix = << >> => DOMAIN sReturned.map = DOMAIN store

\* A fetch over two pages with a non-empty prefix, from a store that also
\* holds a secret outside the prefix.
C4_Witness ==
    /\ sOutcome = "returned"
    /\ prefix # << >>
    /\ Len(sLog) >= 2
    /\ Cardinality(DOMAIN sReturned.map) >= 2
    /\ \E n \in DOMAIN store : ~StartsWith(n, prefix)

\* ----------------------------------------------------------------------- C5
\* C5: a request of fetch_secrets that raised, the first or a later one, is
\* its last request; fetch_secrets has then ended by raising one RuntimeError
\* that names the prefix, and has returned no mapping, whatever was
\* accumulated before.
C5_AllOrNothing ==
    /\ \A k \in 1..Len(sLog) :
        sLog[k].out = "raise" =>
            /\ k = Len(sLog)
            /\ sPc = "idle"
            /\ sOutcome = "raised"
            /\ sReturned = NoMapping
            /\ sRaised = [type |-> "RuntimeError",
                          msg  |-> "Failed to fetch secrets with prefix ",
                          name |-> prefix]
    /\ sOutcome = "raised" => (sLog # << >> /\ sLog[Len(sLog)].out = "raise")

\* The second request raised after the first page had brought entries.
C5_Witness ==
    /\ sOutcome = "raised"
    /\ Len(sLog) >= 2
    /\ sLog[Len(sLog)].out = "raise"
    /\ sResult # EmptyMap

\* ---------------------------------------------------------------------- C11
\* C11: a run of create_runtask on a cluster with a runtask spec issues its
\* calls in the order describe, register, run, each only after the one before
\* it succeeded: the run request comes after the successful registration, is
\* the only run request, asks for one instance on the configured cluster and
\* names the ARN that registration returned; no run request is issued when
\* the registration failed; and a run request answered with a status other
\* than 200, or raising, ends create_runtask with an error for the caller.
RuntaskOrder == <<"describe", "register", "run">>

C11_RegisterThenRunOnce ==
    op = "runtask" =>
        /\ Len(log) <= 3
        /\ \A k \in 1..Len(log) :
            /\ log[k].call = RuntaskOrder[k]
            /\ k < Len(log) => log[k].out = "ok"
            /\ log[k].call = "run" =>
                /\ log[k - 1].call = "register"
                /\ log[k - 1].out = "ok"
                /\ log[k].runArgs = [cluster        |-> clusterName,
                                     taskDefinition |-> log[k - 1].arn,
                                     count          |-> 1]
                /\ log[k].out # "ok" =>
                    /\ pc = "idle"
                    /\ outcome = "raised"
                /\ log[k].out = "non200" => raised = RuntimeError(RunFailMsg)
                /\ log[k].out = "raise" => raised.type \in CollabErrors
                /\ log[k].out = "ok" => outcome = "returned"

\* The run request of a create_runtask was answered with a status other than
\* 200.
C11_Witness ==
    /\ op = "runtask"
    /\ Len(log) = 3
    /\ Last.call = "run"
    /\ Last.out = "non200"
    /\ outcome = "raised"

\* ---------------------------------------------------------------------- C12
\* C12: a call of fetch_secret(key) issues exactly one get_secret_value, for
\* the name prefix + key.  When that call answers, fetch_secret returns the
\* value the store holds under that name; when it raises, fetch_secret raises
\* one RuntimeError that names prefix + key, and whose message differs from
\* the message of the error fetch_secrets raises.
C12_FetchSecret ==
    sOp = "fetch_secret" =>
        /\ Len(sGets) = 1
        /\ sGets[1].SecretId = prefix \o sKey
        /\ sGets[1].out = "ok" =>
            /\ sOutcome = "returned"
            /\ sValue = store[prefix \o sKey]
            /\ sRaised = NoSecretError
        /\ sGets[1].out = "raise" =>
            /\ sOutcome = "raised"
            /\ sRaised.type = "RuntimeError"
            /\ sRaised.name = prefix \o sKey
            /\ sRaised.msg # SecretsError.msg
            /\ sValue = ""

\* fetch_secret was called for a name the store does not hold, under a
\* non-empty prefix.
C12_Witness ==
    /\ sOp = "fetch_secret"
    /\ prefix # << >>
    /\ sKey # << >>
    /\ (prefix \o sKey) \notin DOMAIN store
    /\ sOutcome = "raised"

\* ---------------------------------------------------------------------- C13
\* C13: a task definition with a volume definition that has no name is
\* reported before any client call: when create_deployment or create_runtask
\* ends with the KeyError of generate_args, the run has issued no describe,
\* register, update or run call.
C13_NoCallBeforeConfigError ==
    (pc = "idle" /\ outcome = "raised" /\ raised = KeyError) => log = << >>

\* ---------------------------------------------------------------------- C14
\* C14: fetch_secrets does not return a mapping when two entries it received,
\* on one page or on two, have the same key once the prefix is stripped.
Received == [k \in 1..Len(sLog) |-> sLog[k].page.SecretValues]

C14_DuplicateIsError ==
    (sOp = "fetch_secrets" /\ sOutcome = "returned") =>
        \A k, m \in 1..Len(sLog) :
            \A i \in 1..Len(Received[k]), j \in 1..Len(Received[m]) :
                (k # m \/ i # j) =>
                    StripPrefix(Received[k][i].Name, Len(prefix)) #
                        StripPrefix(Received[m][j].Name, Len(prefix))

\* ---------------------------------------------------------------------- C15
\* C15: the environment list generate_args(repo, tag) returns is the list
\* stored on the spec followed by exactly two entries, IMAGE_REPOSITORY = repo
\* and then IMAGE_TAG = tag; and no call of generate_args changes the stored
\* list, so the two entries never become part of it.
RenderedOk == rendered.called /\ rendered.raised = NoError

C15_RenderedEnvironment ==
    RenderedOk =>
        LET env == rendered.args.environment
            static == tdEnvironments[rendered.of] IN
        /\ Len(env) = Len(static) + 2
        /\ SubSeq(env, 1, Len(static)) = static
        /\ env[Len(static) + 1] = [name |-> "IMAGE_REPOSITORY", value |-> rendered.repo]
        /\ env[Len(static) + 2] = [name |-> "IMAGE_TAG", value |-> rendered.tag]

C15_DynamicEntriesNotStored ==
    /\ []C15_RenderedEnvironment
    /\ [][tdEnvironments' = tdEnvironments]_vars

\* A spec that stores two entries, one of them named IMAGE_TAG, was rendered
\* with another repository and tag than the service's.
C15_Witness ==
    /\ RenderedOk
    /\ Len(tdEnvironments[rendered.of]) = 2
    /\ tdEnvironments[rendered.of][2].name = "IMAGE_TAG"
    /\ rendered.repo = "repo/alt"
    /\ rendered.tag = "v2"

\* ---------------------------------------------------------------------- C16
\* C16: for a volumes mapping of N paths whose volume definitions have a
\* name, generate_args returns N volume entries, the definitions in the order
\* of the mapping, and N mount points, the i-th with the i-th path as its
\* containerPath and the name of the definition under that path as its
\* sourceVolume.
C16_VolumesAndMountPoints ==
    RenderedOk =>
        LET stored == tdVolumes[rendered.of]
            args == rendered.args IN
        /\ Len(args.volumes) = Len(stored)
        /\ Len(args.mountPoints) = Len(stored)
        /\ \A i \in 1..Len(stored) :
            /\ args.volumes[i] = stored[i].volume
            /\ args.mountPoints[i].containerPath = stored[i].path
            /\ args.mountPoints[i].sourceVolume = stored[i].volume.name

\* A mapping of two paths to volumes of different names was rendered.
C16_Witness ==
    /\ RenderedOk
    /\ Len(tdVolumes[rendered.of]) = 2
    /\ tdVolumes[rendered.of][1].path = "/b"
    /\ tdVolumes[rendered.of][1].volume.name = "v2"
    /\ tdVolumes[rendered.of][2].volume.name = "v1"
    /\ Len(rendered.args.mountPoints) = 2

\* ---------------------------------------------------------------------- C17
\* C17: generate_args returns, as the log stream prefix, the family of a spec
\* that was constructed with an empty awslog_stream, and the awslog_stream a
\* spec was constructed with when that was not empty.
C17_StreamPrefix ==
    RenderedOk =>
        rendered.args.streamPrefix =
            IF tdStreamArg[rendered.of] = ""
            THEN tdFamily[rendered.of]
            ELSE tdStreamArg[rendered.of]

\* A spec constructed without an awslog_stream was rendered.
C17_Witness ==
    /\ RenderedOk
    /\ tdStreamArg[rendered.of] = ""
    /\ rendered.args.streamPrefix = "fa"

\* ---------------------------------------------------------------------- C18
\* C18: in a call of fetch_secrets the first request carries no token, every
\* further request follows a response that carried a token and carries that
\* token, and the call returns at the first response without a token: it is
\* between two requests only after a response with a token, and has returned
\* only after a response without one.  Against the store, whose pages hold at
\* least one of the matching secrets each, the number of requests never
\* exceeds the number of matching secrets (or one, when none matches), and
\* the mapping returned after P requests holds every entry of the P pages:
\* all the matching secrets, none left out.
LastRequest == sLog[Len(sLog)]

C18_Pagination ==
    sOp = "fetch_secrets" =>
        /\ Len(sLog) >= 1
        /\ sLog[1].args.NextToken = 0
        /\ \A k \in 2..Len(sLog) :
            /\ sLog[k - 1].out = "ok"
            /\ sLog[k - 1].page.NextToken # 0
            /\ sLog[k].args.NextToken = sLog[k - 1].page.NextToken
        /\ sPc = "paging" <=>
            (LastRequest.out = "ok" /\ LastRequest.page.NextToken # 0)
        /\ (sPc = "idle" /\ sOutcome = "returned") <=>
            (LastRequest.out = "ok" /\ LastRequest.page.NextToken = 0)
        /\ Len(sLog) <= Cardinality(Matching(prefix)) \/ Len(sLog) = 1
        /\ sOutcome = "returned" =>
            /\ sReturned.has
            /\ \A k \in 1..Len(sLog) :
                \A i \in 1..Len(sLog[k].page.SecretValues) :
                    LET secret == sLog[k].page.SecretValues[i]
                        key == StripPrefix(secret.Name, Len(prefix)) IN
                    /\ key \in DOMAIN sReturned.map
                    /\ sReturned.map[key] = secret.SecretString
            /\ UNION {PageNames(sLog[k].page) : k \in 1..Len(sLog)} = Matching(prefix)
            /\ Cardinality(DOMAIN sReturned.map) = Cardinality(Matching(prefix))

\* Three secrets under a non-empty prefix came on three pages.
C18_Witness ==
    /\ sOp = "fetch_secrets"
    /\ prefix # << >>
    /\ sOutcome = "returned"
    /\ Len(sLog) = 3
    /\ Cardinality(DOMAIN sReturned.map) = 3

\* ---------------------------------------------------------------------- C19
\* C19: nothing is retried.  An invocation of create_deployment or
\* create_runtask issues each of describe, register, update and run at most
\* once per service (once in all for the runtask spec); an invocation of
\* fetch_secrets asks for each page at most once and an invocation of
\* fetch_secret issues one retrieval; and a call that failed is the last call
\* of its invocation, which has ended by raising to its caller.
C19_NothingRetried ==
    /\ \A k, m \in 1..Len(log) :
        k < m => (log[k].call # log[m].call \/ log[k].idx # log[m].idx)
    /\ \A k \in 1..Len(log) :
        Failed(k) =>
            /\ k = Len(log)
            /\ pc = "idle"
            /\ outcome = "raised"
    /\ \A k, m \in 1..Len(sLog) :
        k < m => sLog[k].args.NextToken # sLog[m].args.NextToken
    /\ \A k \in 1..Len(sLog) :
        sLog[k].out = "raise" =>
            /\ k = Len(sLog)
            /\ sPc = "idle"
            /\ sOutcome = "raised"
    /\ Len(sGets) <= 1
    /\ \A k \in 1..Len(sGets) :
        sGets[k].out = "raise" => sOutcome = "raised"

\* The registration of the second service failed in a deployment, and the
\* second request failed in a fetch_secrets.
C19_Witness ==
    /\ op = "deploy"
    /\ Len(log) = 5
    /\ Failed(5)
    /\ outcome = "raised"
    /\ sOp = "fetch_secrets"
    /\ Len(sLog) = 2
    /\ sLog[2].out = "raise"
    /\ sOutcome = "raised"

\* ---------------------------------------------------------------------- C20
\* C20: the command list stored on a task definition changes in one way
\* only: a call of create_runtask with a non-empty list, on a cluster with a
\* runtask spec, replaces the list of that spec object at once; no other step
\* (a call without override or with an empty one, a client call, a return, a
\* failure) changes any stored list.  So every describe and register of a
\* later invocation, create_runtask or the create_deployment of a service
\* that holds the same spec object, carries the list stored then.
Overrides ==
    /\ CallStarted
    /\ op' = "runtask"
    /\ runtask # None
    /\ given'.isList
    /\ given'.items # << >>

RenderedTd(k) == IF op = "deploy" THEN services[log[k].idx].td ELSE runtask

C20_RendersStored ==
    \A k \in 1..Len(log) :
        log[k].call \in {"describe", "register"} =>
            log[k].payload.command = tdCommands[RenderedTd(k)]

C20_OverridePersists ==
    /\ []C20_RendersStored
    /\ [][tdCommands' = IF Overrides
                        THEN [tdCommands EXCEPT ![runtask] = given'.items]
                        ELSE tdCommands]_vars

\* After a create_runtask with an override, create_deployment registered the
\* override for a service that holds the runtask's spec object.
C20_Witness ==
    /\ runs = 2
    /\ op = "deploy"
    /\ runtask # None
    /\ \E k \in 1..Len(log) :
        /\ log[k].call = "register"
        /\ services[log[k].idx].td = runtask
        /\ log[k].payload.command = <<"migrate">>

\* ---------------------------------------------------------------------- C21
\* C21: no rollback.  When create_deployment has failed at the service at
\* position i, every position j < i has a successful registration and a
\* successful update to the ARN of that registration, that revision is still
\* registered, and the service of that name points at the ARN registered for
\* the last position before i that names it (position j itself when the
\* names differ); when the failed call is the update of position i, the
\* revision registered for it is still the newest of its family and its
\* service does not point at it; and no call was made for a position after
\* i.  No step takes a revision away, and a service is pointed elsewhere only
\* by a successful update of a deployment, to the ARN just registered.
LastNaming(name, i) ==
    CHOOSE m \in 1..(i - 1) :
        /\ services[m].name = name
        /\ \A n \in 1..(i - 1) : services[n].name = name => n <= m

C21_LeftBehind ==
    (op = "deploy" /\ pc = "idle" /\ outcome = "raised") =>
        LET i == Last.idx IN
        /\ Failed(Len(log))
        /\ Len(log) > 3 * (i - 1)
        /\ Len(log) <= 3 * i
        /\ \A k \in 1..Len(log) : log[k].idx <= i
        /\ \A j \in 1..(i - 1) :
            LET reg == log[3 * j - 1]
                upd == log[3 * j] IN
            /\ reg.call = "register" /\ reg.out = "ok" /\ reg.idx = j
            /\ upd.call = "update" /\ upd.out = "ok" /\ upd.idx = j
            /\ upd.svcArgs.service = services[j].name
            /\ upd.svcArgs.taskDefinition = reg.arn
            /\ cpRev[reg.arn.family] >= reg.arn.rev
            /\ cpSvcTd[services[j].name] =
                log[3 * LastNaming(services[j].name, i) - 1].arn
        /\ Last.call = "update" =>
            LET reg == log[Len(log) - 1] IN
            /\ reg.call = "register" /\ reg.out = "ok" /\ reg.idx = i
            /\ cpRev[reg.arn.family] = reg.arn.rev
            /\ cpSvcTd[services[i].name] # reg.arn

C21_NoRollback ==
    /\ []C21_LeftBehind
    /\ [][/\ \A f \in Families :
                /\ cpRev'[f] >= cpRev[f]
                /\ cpRev'[f] # cpRev[f] => (pc = "register" /\ tdDict.family = f)
          /\ \A n \in ServiceNames :
                cpSvcTd'[n] # cpSvcTd[n] =>
                    /\ op = "deploy"
                    /\ pc = "update"
                    /\ services[idx].name = n
                    /\ cpSvcTd'[n] = arn]_vars

\* A deployment of two services of different names failed at the update of
\* the second: the first service points at its new revision, the second
\* one's new revision is registered and not in use.
C21_Witness ==
    /\ op = "deploy"
    /\ outcome = "raised"
    /\ Len(services) = 2
    /\ services[1].name # services[2].name
    /\ Len(log) = 6
    /\ Last.call = "update"
    /\ Last.out = "non200"
    /\ cpSvcTd[services[1].name] = log[2].arn
    /\ cpRev[log[5].arn.family] = log[5].arn.rev

====
